---- MODULE Spec2Model ----
(***************************************************************************)
(* Model of transvibe (src/main.rs): the audio_processing_task (capture    *)
(* loop, live transcription, spawned translation tasks), the mpsc channel  *)
(* of AppUpdate values, and App (on_update, handle_events, handle_updates, *)
(* run).                                                                   *)
(*                                                                         *)
(* Strings are sequences of tokens (a token is a TLA+ string), so that     *)
(* push_str is concatenation, trim removes whitespace tokens and           *)
(* String::new() is << >>.  Vec indices are 1-based here: the source's     *)
(* index 0 is index 1.                                                     *)
(***************************************************************************)
EXTENDS Integers, Sequences, FiniteSets, TLC

\* ---------------------------------------------------------------- bounds
\* chunks the VAD stream yields before it stays silent or ends
MaxChunks == 3
\* partial results the transcription stream yields per chunk
MaxFrags == 2
\* capacity of the mpsc channel in the model (the program's is 32)
ChanCap == 2
\* key presses handled by handle_events
MaxKeys == 4
\* characters held by user_input
MaxInput == 2
\* VAD outputs seen by the inspect closure
MaxVad == 1

\* What the environment does in one run: the chunks the microphone stream
\* yields, the partial results the transcription stream yields per chunk, the
\* keys the user presses, the VAD outputs the inspect closure sees.
Scenarios ==
    { [ chunks |-> MaxChunks, frags |-> 1, keys |-> 0, vads |-> 0 ],
      [ chunks |-> 1, frags |-> MaxFrags, keys |-> 0, vads |-> 0 ],
      [ chunks |-> 1, frags |-> 1, keys |-> MaxKeys, vads |-> 0 ],
      [ chunks |-> 1, frags |-> 1, keys |-> 0, vads |-> MaxVad ] }
\* sample counts of a chunk and of a VAD output
ChunkSizes == { 2 }
VadSampleCounts == { 0, 1 }

\* ------------------------------------------------------ program constants
\* transcribed.probability_of_no_speech() < 0.85, in percent
NoSpeechThreshold == 85

\* ------------------------------------------------------------- the state
VARIABLES
    \* struct App
    status,
    current_live_japanese,
    completed_japanese,
    completed_translations,
    should_quit,
    input_mode,
    user_input,
    is_listening_shared,        \* App.is_listening_shared, the Arc made in App::new
    total_samples_listened,
    raw_samples_count,
    app_pc,                     \* position of App::run: "events", "updates", "exited"
    \* the mpsc channel: tx end (all clones) and App.rx
    rx,
    \* main and audio_processing_task
    is_listening_audio_task,    \* the Arc made in main and given to the audio task
    audio_pc,                   \* position of audio_processing_task
    chunks_taken,               \* chunks the stream has yielded so far
    vad_seen,                   \* VAD outputs with samples the stream has yielded
    current_segment_text,
    frags_taken,                \* partial results taken from transcribed_stream
    tasks,                      \* spawned translation tasks that have not sent yet
    \* the environment of this run, fixed by Init
    env,
    \* history of the run, read only by the properties
    keys_pressed,
    requests_since_pause,
    script_pos,
    processed,
    panicked,                   \* units whose translation task ended by a panic
    handed,                     \* per type, the events producers gave to send/try_send
    driver_log,                 \* the events the driver has sent for the current chunk
    accepted,                   \* the partial results accepted for the current chunk
    paused_at_final,            \* App's flag was false when the chunk's last event was sent
    submit_pressed              \* the key handle_events handled last was Enter

vars == << status, current_live_japanese, completed_japanese,
           completed_translations, should_quit, input_mode, user_input,
           is_listening_shared, total_samples_listened, raw_samples_count,
           app_pc, rx, is_listening_audio_task, audio_pc, chunks_taken,
           vad_seen, current_segment_text, frags_taken, tasks, env,
           keys_pressed, requests_since_pause, script_pos, processed,
           panicked, handed, driver_log, accepted, paused_at_final,
           submit_pressed >>

appVars == << status, current_live_japanese, completed_japanese,
              completed_translations, should_quit, input_mode, user_input,
              is_listening_shared, total_samples_listened, raw_samples_count,
              app_pc >>

audioVars == << is_listening_audio_task, audio_pc, chunks_taken, vad_seen,
                current_segment_text, frags_taken, tasks >>

historyVars == << env, keys_pressed, requests_since_pause, script_pos,
                 processed, panicked, handed, driver_log, accepted,
                 paused_at_final, submit_pressed >>

\* the history kept of the driver's work on the current chunk
driverHistory == << driver_log, accepted, paused_at_final >>

\* ------------------------------------------------------------- the texts
Translating == << "Translating..." >>
TranslatingUserInput == << "Translating user input..." >>
PendingTranslation == << "[Pending Translation]" >>
NoTranslationGenerated == << "[No translation generated]" >>
UserInputPrefix == << "[User Input]: " >>
Space == " "
ImStart == "<|im_start|>"
ImEnd == "<|im_end|>"

\* the text the transcription engine hears in chunk k
Glyph(k) == << "jp1", "jp2", "jp3", "jp4", "jp5", "jp6" >>[k]
\* the translation the engine gives for the text of chunk k
En(k) == << "en1", "en2", "en3", "en4", "en5", "en6" >>[k]

Chars == { "t", "e" }

\* str::trim on both ends
RECURSIVE TrimStart(_)
TrimStart(s) ==
    IF s # << >> /\ Head(s) = Space THEN TrimStart(Tail(s)) ELSE s

RECURSIVE TrimEnd(_)
TrimEnd(s) ==
    IF s # << >> /\ s[Len(s)] = Space
    THEN TrimEnd(SubSeq(s, 1, Len(s) - 1))
    ELSE s

Trim(s) == TrimEnd(TrimStart(s))

\* ---------------------------------------------------------- the channel
\* an AppUpdate value; unit is not part of the program's message: it records
\* which chunk's unit the message comes from, for the properties only
Msg(t, s, n, u) == [ type |-> t, text |-> s, samples |-> n, unit |-> u ]

StatusUpdate(s) == Msg("StatusUpdate", s, 0, 0)
LiveJapaneseUpdate(s) == Msg("LiveJapaneseUpdate", s, 0, 0)
JapaneseSegmentComplete(s, u) == Msg("JapaneseSegmentComplete", s, 0, u)
EnglishTranslation(s, u) == Msg("EnglishTranslation", s, 0, u)
SamplesProcessed(n) == Msg("SamplesProcessed", << >>, n, 0)
RawSamplesDetected(n) == Msg("RawSamplesDetected", << >>, n, 0)
Error(s) == Msg("Error", s, 0, 0)

\* the process is alive until App::run returns and main exits
Running == app_pc # "exited"

\* the events whose loss would change History or hide a failure
CriticalTypes == { "JapaneseSegmentComplete", "EnglishTranslation", "Error" }

\* a producer gives m to the channel, by send or by try_send
Hand(m) ==
    handed' = IF m.type \in CriticalTypes
              THEN [handed EXCEPT ![m.type] = @ + 1]
              ELSE handed

\* tx.send(m).await: waits for capacity
Send(m) ==
    /\ Running
    /\ Len(rx) < ChanCap
    /\ rx' = Append(rx, m)
    /\ Hand(m)

\* tx.try_send(m).ok(): dropped when the channel is full
TrySend(m) ==
    /\ Running
    /\ rx' = IF Len(rx) < ChanCap THEN Append(rx, m) ELSE rx
    /\ Hand(m)

\* ------------------------------------------------------ App::on_update
\* Vec::insert(0, e)
InsertFront(v, e) == << e >> \o v

\* Vec::pop(), the removed element dropped
Pop(v) == SubSeq(v, 1, Len(v) - 1)

\* the trim with >= for >: a list as long as completed_japanese loses its
\* last entry
TrimTranslations_OffByOne(tr, jp_len) ==
    IF Len(tr) >= jp_len THEN SubSeq(tr, 1, jp_len - 1) ELSE tr

\* while completed_translations.len() > completed_japanese.len() { pop() }
RECURSIVE TrimTranslations(_, _)
TrimTranslations(tr, jp_len) ==
    IF Len(tr) > jp_len THEN TrimTranslations(Pop(tr), jp_len) ELSE tr

\* the backfill written as a do-while: one placeholder is inserted even when
\* the lengths agree
BackfillTranslations_DoWhile(tr, jp_len) ==
    IF Len(tr) < jp_len
    THEN [ i \in 1..jp_len |->
             IF i <= jp_len - Len(tr)
             THEN PendingTranslation
             ELSE tr[i - (jp_len - Len(tr))] ]
    ELSE InsertFront(tr, PendingTranslation)

\* while completed_translations.len() < completed_japanese.len()
\*     { insert(0, "[Pending Translation]") }
RECURSIVE BackfillTranslations(_, _)
BackfillTranslations(tr, jp_len) ==
    IF Len(tr) < jp_len
    THEN BackfillTranslations(InsertFront(tr, PendingTranslation), jp_len)
    ELSE tr

\* iter().position(|t| t == v): the first index holding v, 0 for None
Position(tr, v) ==
    IF \E i \in 1..Len(tr) : tr[i] = v
    THEN CHOOSE i \in 1..Len(tr) : tr[i] = v /\ \A j \in 1..(i - 1) : tr[j] # v
    ELSE 0

\* the chain with the first test reduced to tr_len > 0: the newest slot is
\* overwritten whatever it holds
ResolveTranslation_NoPlaceholderTest(tr, jp_len, en_text) ==
    IF Len(tr) > 0
    THEN [tr EXCEPT ![1] = en_text]
    ELSE IF Len(tr) < jp_len
    THEN InsertFront(tr, en_text)
    ELSE tr

\* the if / else-if chain of the EnglishTranslation arm
ResolveTranslation(tr, jp_len, en_text) ==
    IF Len(tr) > 0 /\ tr[1] = Translating
    THEN [tr EXCEPT ![1] = en_text]
    ELSE IF Position(tr, Translating) # 0
    THEN [tr EXCEPT ![Position(tr, Translating)] = en_text]
    ELSE IF Len(tr) < jp_len
    THEN InsertFront(tr, en_text)
    ELSE tr

\* completed_translations after the EnglishTranslation arm
TranslationsAfterTranslation(jp, tr, en_text) ==
    BackfillTranslations(
        TrimTranslations(ResolveTranslation(tr, Len(jp), en_text), Len(jp)),
        Len(jp))

\* the arm without its placeholder insert
PlaceholderForSegment_Missing(tr) == tr

\* the placeholder the JapaneseSegmentComplete arm inserts
PlaceholderForSegment(tr) == InsertFront(tr, Translating)

\* completed_translations after the JapaneseSegmentComplete arm;
\* jp is completed_japanese after its insert
TranslationsAfterSegment(jp, tr) ==
    TrimTranslations(PlaceholderForSegment(tr), Len(jp))

\* the index in completed_japanese of the unit finalized from chunk k
\* (0 when it is not there): its text holds the chunk's glyph
HoldsGlyph(text, k) == \E n \in 1..Len(text) : text[n] = Glyph(k)
UnitIndex(jp, k) ==
    IF \E i \in 1..Len(jp) : HoldsGlyph(jp[i], k)
    THEN CHOOSE i \in 1..Len(jp) : HoldsGlyph(jp[i], k)
    ELSE 0

\* what the run remembers of an EnglishTranslation it has processed: the
\* unit whose task sent it, its text, and what that unit's own slot held
Processed(m, jp, tr) ==
    [ unit |-> m.unit, text |-> m.text,
      own_slot |-> IF UnitIndex(jp, m.unit) \in 1..Len(tr)
                   THEN tr[UnitIndex(jp, m.unit)]
                   ELSE << >> ]

\* handle_updates: while let Ok(update) = self.rx.try_recv()
Receiving(t) ==
    /\ app_pc = "updates"
    /\ rx # << >>
    /\ Head(rx).type = t
    /\ rx' = Tail(rx)

OnUpdateStatus ==
    /\ Receiving("StatusUpdate")
    /\ status' = Head(rx).text
    /\ UNCHANGED << current_live_japanese, completed_japanese,
                    completed_translations, should_quit, input_mode,
                    user_input, is_listening_shared, total_samples_listened,
                    raw_samples_count, app_pc >>
    /\ UNCHANGED audioVars
    /\ UNCHANGED historyVars

OnUpdateLive ==
    /\ Receiving("LiveJapaneseUpdate")
    /\ current_live_japanese' = Head(rx).text
    /\ UNCHANGED << status, completed_japanese, completed_translations,
                    should_quit, input_mode, user_input, is_listening_shared,
                    total_samples_listened, raw_samples_count, app_pc >>
    /\ UNCHANGED audioVars
    /\ UNCHANGED historyVars

OnUpdateSegmentComplete ==
    /\ Receiving("JapaneseSegmentComplete")
    /\ completed_japanese' = InsertFront(completed_japanese, Head(rx).text)
    /\ current_live_japanese' = << >>
    /\ completed_translations' =
           TranslationsAfterSegment(completed_japanese', completed_translations)
    /\ UNCHANGED << status, should_quit, input_mode, user_input,
                    is_listening_shared, total_samples_listened,
                    raw_samples_count, app_pc >>
    /\ UNCHANGED audioVars
    /\ UNCHANGED historyVars

OnUpdateTranslation ==
    /\ Receiving("EnglishTranslation")
    /\ completed_translations' =
           TranslationsAfterTranslation(completed_japanese,
                                        completed_translations, Head(rx).text)
    /\ processed' = Append(processed,
                            Processed(Head(rx), completed_japanese,
                                      completed_translations))
    /\ UNCHANGED << status, current_live_japanese, completed_japanese,
                    should_quit, input_mode, user_input, is_listening_shared,
                    total_samples_listened, raw_samples_count, app_pc >>
    /\ UNCHANGED audioVars
    /\ UNCHANGED << env, keys_pressed, requests_since_pause, script_pos,
                    panicked, handed, driver_log, accepted, paused_at_final,
                    submit_pressed >>

OnUpdateSamplesProcessed ==
    /\ Receiving("SamplesProcessed")
    /\ total_samples_listened' = total_samples_listened + Head(rx).samples
    /\ raw_samples_count' = 0
    /\ UNCHANGED << status, current_live_japanese, completed_japanese,
                    completed_translations, should_quit, input_mode,
                    user_input, is_listening_shared, app_pc >>
    /\ UNCHANGED audioVars
    /\ UNCHANGED historyVars

OnUpdateRawSamples ==
    /\ Receiving("RawSamplesDetected")
    /\ raw_samples_count' = raw_samples_count + Head(rx).samples
    /\ UNCHANGED << status, current_live_japanese, completed_japanese,
                    completed_translations, should_quit, input_mode,
                    user_input, is_listening_shared, total_samples_listened,
                    app_pc >>
    /\ UNCHANGED audioVars
    /\ UNCHANGED historyVars

OnUpdateError ==
    /\ Receiving("Error")
    /\ status' = << "ERROR: " >> \o Head(rx).text
    /\ UNCHANGED << current_live_japanese, completed_japanese,
                    completed_translations, should_quit, input_mode,
                    user_input, is_listening_shared, total_samples_listened,
                    raw_samples_count, app_pc >>
    /\ UNCHANGED audioVars
    /\ UNCHANGED historyVars

\* try_recv returned Err: handle_updates returns and run tests should_quit
HandleUpdatesDone ==
    /\ app_pc = "updates"
    /\ rx = << >>
    /\ app_pc' = IF should_quit THEN "exited" ELSE "events"
    /\ submit_pressed' = FALSE
    /\ UNCHANGED << status, current_live_japanese, completed_japanese,
                    completed_translations, should_quit, input_mode,
                    user_input, is_listening_shared, total_samples_listened,
                    raw_samples_count, rx >>
    /\ UNCHANGED audioVars
    /\ UNCHANGED << env, keys_pressed, requests_since_pause, script_pos,
                    processed, panicked, handed >>
    /\ UNCHANGED driverHistory

\* ---------------------------------------------------- App::handle_events
Listening == "Listening"
StoppedTyping == "StoppedTyping"

\* the key sequence toggle, t, e, s, t, submit and how far the keys pressed
\* so far follow it, the toggle pressed in Listening mode
Script == << "s", "t", "e", "s", "t", "Enter" >>

NextScriptPos(key) ==
    IF /\ script_pos < Len(Script)
       /\ key = Script[script_pos + 1]
       /\ (script_pos > 0 \/ input_mode = Listening)
    THEN script_pos + 1
    ELSE IF key = "s" /\ input_mode = Listening THEN 1 ELSE 0

\* event::poll returned true, event::read gave a key press that is no
\* scroll key; handle_events returns and run calls handle_updates
KeyPress(key) ==
    /\ app_pc = "events"
    /\ keys_pressed < env.keys
    /\ keys_pressed' = keys_pressed + 1
    /\ script_pos' = NextScriptPos(key)
    /\ submit_pressed' = (key = "Enter")
    /\ app_pc' = "updates"
    /\ UNCHANGED << total_samples_listened, raw_samples_count, rx, env,
                    processed, panicked, handed, driver_log, accepted,
                    paused_at_final >>
    /\ UNCHANGED audioVars

\* the StoppedTyping arm without its store(true): the mode goes back to
\* Listening and the flag stays false
KeyS_FlagNotRestored ==
    /\ KeyPress("s")
    /\ IF input_mode = Listening
       THEN /\ input_mode' = StoppedTyping
            /\ is_listening_shared' = FALSE
            /\ status' = << "Stopped. Press 's' to Start. Type your message, Enter to process." >>
            /\ current_live_japanese' = << >>
            /\ user_input' = << >>
       ELSE /\ input_mode' = Listening
            /\ status' = << "Starting... Press 's' to Stop/Start, 'q' to Quit" >>
            /\ user_input' = << >>
            /\ UNCHANGED << current_live_japanese, is_listening_shared >>
    /\ requests_since_pause' = 0
    /\ UNCHANGED << completed_japanese, completed_translations, should_quit >>

\* KeyCode::Char('s') in either mode
KeyS ==
    /\ KeyPress("s")
    /\ IF input_mode = Listening
       THEN /\ input_mode' = StoppedTyping
            /\ is_listening_shared' = FALSE
            /\ status' = << "Stopped. Press 's' to Start. Type your message, Enter to process." >>
            /\ current_live_japanese' = << >>
            /\ user_input' = << >>
       ELSE /\ input_mode' = Listening
            /\ is_listening_shared' = TRUE
            /\ status' = << "Starting... Press 's' to Stop/Start, 'q' to Quit" >>
            /\ user_input' = << >>
            /\ UNCHANGED current_live_japanese
    /\ requests_since_pause' = 0
    /\ UNCHANGED << completed_japanese, completed_translations, should_quit >>

\* KeyCode::Char('q') in either mode
KeyQ ==
    /\ KeyPress("q")
    /\ should_quit' = TRUE
    /\ status' = << "Exiting..." >>
    /\ UNCHANGED << current_live_japanese, completed_japanese,
                    completed_translations, input_mode, user_input,
                    is_listening_shared, requests_since_pause >>

\* KeyCode::Esc
KeyEsc ==
    /\ KeyPress("Esc")
    /\ should_quit' = TRUE
    /\ UNCHANGED << status, current_live_japanese, completed_japanese,
                    completed_translations, input_mode, user_input,
                    is_listening_shared, requests_since_pause >>

\* the unit pushed for typed input: format!("[User Input]: {}", user_input)
UserInputUnit(input) == UserInputPrefix \o input

\* Enter pushing the placeholder the JapaneseSegmentComplete arm uses
TranslationsAfterSubmit_SharedPlaceholder(jp, tr) ==
    IF Len(tr) < Len(jp) THEN Append(tr, Translating) ELSE tr

\* Enter without its placeholder push
TranslationsAfterSubmit_Missing(jp, tr) == tr

\* completed_translations after Enter; jp is completed_japanese after its push
TranslationsAfterSubmit(jp, tr) ==
    IF Len(tr) < Len(jp) THEN Append(tr, TranslatingUserInput) ELSE tr

\* KeyCode::Enter: handled in StoppedTyping, ignored in Listening
KeyEnter ==
    /\ KeyPress("Enter")
    /\ IF input_mode = StoppedTyping /\ user_input # << >>
       THEN /\ completed_japanese' =
                   Append(completed_japanese, UserInputUnit(user_input))
            /\ completed_translations' =
                   TranslationsAfterSubmit(completed_japanese',
                                           completed_translations)
            /\ status' = << "Input '" >> \o user_input
                            \o << "' submitted. Press 's' to start listening." >>
            /\ user_input' = << >>
       ELSE UNCHANGED << completed_japanese, completed_translations, status,
                         user_input >>
    /\ UNCHANGED << current_live_japanese, should_quit, input_mode,
                    is_listening_shared, requests_since_pause >>

\* KeyCode::Char(c), c neither 's' nor 'q': pushed in StoppedTyping
KeyChar ==
    \E c \in Chars :
        /\ KeyPress(c)
        /\ input_mode = StoppedTyping => Len(user_input) < MaxInput
        /\ user_input' = IF input_mode = StoppedTyping
                         THEN Append(user_input, c)
                         ELSE user_input
        /\ UNCHANGED << status, current_live_japanese, completed_japanese,
                        completed_translations, should_quit, input_mode,
                        is_listening_shared, requests_since_pause >>

\* KeyCode::Backspace: String::pop in StoppedTyping
KeyBackspace ==
    /\ KeyPress("Backspace")
    /\ user_input' = IF input_mode = StoppedTyping /\ user_input # << >>
                     THEN Pop(user_input)
                     ELSE user_input
    /\ UNCHANGED << status, current_live_japanese, completed_japanese,
                    completed_translations, should_quit, input_mode,
                    is_listening_shared, requests_since_pause >>

\* event::poll timed out after 50 ms (or the event was no key press)
PollTimeout ==
    /\ app_pc = "events"
    /\ app_pc' = "updates"
    /\ UNCHANGED << status, current_live_japanese, completed_japanese,
                    completed_translations, should_quit, input_mode,
                    user_input, is_listening_shared, total_samples_listened,
                    raw_samples_count, rx >>
    /\ UNCHANGED audioVars
    /\ UNCHANGED historyVars

\* ------------------------------------------------ audio_processing_task
\* a step of the audio task that touches nothing of App
AudioStep(from, to) ==
    /\ Running
    /\ audio_pc = from
    /\ audio_pc' = to
    /\ UNCHANGED appVars
    /\ UNCHANGED << is_listening_audio_task, env, keys_pressed, script_pos,
                    processed, panicked, submit_pressed >>

\* tx.send(StatusUpdate("Initializing models...")).await.ok()
StatusInitializing ==
    /\ AudioStep("init", "whisper")
    /\ Send(StatusUpdate(<< "Initializing models..." >>))
    /\ UNCHANGED << chunks_taken, vad_seen, current_segment_text, frags_taken,
                    tasks, requests_since_pause >>

    /\ UNCHANGED driverHistory
\* WhisperBuilder ... .build().await? : Ok, or Err returned by `?`
WhisperBuild ==
    /\ \E ok \in BOOLEAN :
           AudioStep("whisper", IF ok THEN "status_whisper" ELSE "failed")
    /\ UNCHANGED << rx, handed, chunks_taken, vad_seen, current_segment_text,
                    frags_taken, tasks, requests_since_pause >>

    /\ UNCHANGED driverHistory
StatusWhisperLoaded ==
    /\ AudioStep("status_whisper", "llama")
    /\ Send(StatusUpdate(<< "Whisper model loaded. Initializing Llama..." >>))
    /\ UNCHANGED << chunks_taken, vad_seen, current_segment_text, frags_taken,
                    tasks, requests_since_pause >>

    /\ UNCHANGED driverHistory
\* Llama::builder() ... .build().await? : Ok, or Err returned by `?`
LlamaBuild ==
    /\ \E ok \in BOOLEAN :
           AudioStep("llama", IF ok THEN "status_loaded" ELSE "failed")
    /\ UNCHANGED << rx, handed, chunks_taken, vad_seen, current_segment_text,
                    frags_taken, tasks, requests_since_pause >>

    /\ UNCHANGED driverHistory
StatusAllLoaded ==
    /\ AudioStep("status_loaded", "loop")
    /\ Send(StatusUpdate(<< "All models loaded. Listening for microphone input..." >>))
    /\ UNCHANGED << chunks_taken, vad_seen, current_segment_text, frags_taken,
                    tasks, requests_since_pause >>

    /\ UNCHANGED driverHistory
\* the wrapper written as `let _ = audio_processing_task(..).await;`: the
\* error is dropped and nothing is sent
SendError_Silent ==
    /\ AudioStep("failed", "done")
    /\ UNCHANGED << rx, handed, chunks_taken, vad_seen, current_segment_text,
                    frags_taken, tasks, requests_since_pause >>
    /\ UNCHANGED driverHistory

\* main's wrapper: if let Err(e) = audio_processing_task(..).await
\*     { tx.send(AppUpdate::Error(..)).await }
SendError ==
    /\ AudioStep("failed", "done")
    /\ Send(Error(<< "Audio processing task failed: ", "{e}" >>))
    /\ UNCHANGED << chunks_taken, vad_seen, current_segment_text, frags_taken,
                    tasks, requests_since_pause >>

    /\ UNCHANGED driverHistory
\* loop head: if !is_listening_shared.load() { sleep(100ms); continue; }
LoopHead ==
    /\ AudioStep("loop", IF ~is_listening_audio_task THEN "loop" ELSE "next")
    /\ UNCHANGED << rx, handed, chunks_taken, vad_seen, current_segment_text,
                    frags_taken, tasks, requests_since_pause >>

    /\ UNCHANGED driverHistory
\* one call of timeout(50ms, audio_chunks.next()) has returned while the
\* control plane's flag is false
CountRequest ==
    requests_since_pause' =
        IF ~is_listening_shared /\ requests_since_pause < 2
        THEN requests_since_pause + 1
        ELSE requests_since_pause

\* the inspect closure, run while next() polls the VAD stream:
\* if samples_count > 0 { tx_for_inspect.try_send(RawSamplesDetected(..)).ok() }
InspectVad ==
    /\ AudioStep("next", "next")
    /\ vad_seen < env.vads
    /\ vad_seen' = vad_seen + 1
    /\ \E samples_count \in VadSampleCounts :
           IF samples_count > 0
           THEN TrySend(RawSamplesDetected(samples_count))
           ELSE UNCHANGED << rx, handed >>
    /\ UNCHANGED << chunks_taken, current_segment_text, frags_taken, tasks,
                    requests_since_pause >>

    /\ UNCHANGED driverHistory
\* Ok(Some(chunk)) => chunk
NextChunk ==
    /\ AudioStep("next", "status_chunk")
    /\ chunks_taken < env.chunks
    /\ chunks_taken' = chunks_taken + 1
    /\ CountRequest
    /\ UNCHANGED << rx, handed, vad_seen, current_segment_text, frags_taken,
                    tasks >>

    /\ UNCHANGED driverHistory
\* Ok(None) => break; the task returns Ok(())
NextNone ==
    /\ AudioStep("next", "done")
    /\ CountRequest
    /\ UNCHANGED << rx, handed, chunks_taken, vad_seen, current_segment_text,
                    frags_taken, tasks >>

    /\ UNCHANGED driverHistory
\* Err(_) => continue
NextTimeout ==
    /\ AudioStep("next", "loop")
    /\ CountRequest
    /\ UNCHANGED << rx, handed, chunks_taken, vad_seen, current_segment_text,
                    frags_taken, tasks >>

    /\ UNCHANGED driverHistory
StatusProcessingChunk ==
    /\ AudioStep("status_chunk", "samples")
    /\ Send(StatusUpdate(<< "Processing audio chunk (", "{chunk_size}",
                            " samples)..." >>))
    /\ UNCHANGED << chunks_taken, vad_seen, current_segment_text, frags_taken,
                    tasks, requests_since_pause >>

    /\ UNCHANGED driverHistory
\* tx.send(SamplesProcessed(chunk_size)); current_segment_text = String::new();
\* transcribed_stream = whisper_model.transcribe(chunk)
SendSamplesProcessed ==
    /\ AudioStep("samples", "transcribe")
    /\ \E chunk_size \in ChunkSizes : Send(SamplesProcessed(chunk_size))
    /\ current_segment_text' = << >>
    /\ frags_taken' = 0
    /\ driver_log' = << >>
    /\ accepted' = << >>
    /\ paused_at_final' = FALSE
    /\ UNCHANGED << chunks_taken, vad_seen, tasks, requests_since_pause >>

\* what the transcription stream can yield for chunk k
FragmentTexts(k) == { << Glyph(k) >>, << Space >> }
NoSpeechProbabilities == { 10, 84, 85, 90 }

\* the live-update carrying the partial result alone, not the text so far
TranscribeAccepted_SendsDelta ==
    /\ AudioStep("transcribe", "transcribe")
    /\ frags_taken < env.frags
    /\ frags_taken' = frags_taken + 1
    /\ \E text \in FragmentTexts(chunks_taken), p \in NoSpeechProbabilities :
           /\ p < NoSpeechThreshold
           /\ current_segment_text' = current_segment_text \o text
           /\ Send(LiveJapaneseUpdate(text))
           /\ accepted' = Append(accepted, text)
           /\ UNCHANGED paused_at_final
           /\ driver_log' = Append(driver_log, LiveJapaneseUpdate(text))
    /\ UNCHANGED << chunks_taken, vad_seen, tasks, requests_since_pause >>

\* a partial result with probability_of_no_speech() < 0.85:
\* push_str(text); tx.send(LiveJapaneseUpdate(current_segment_text.clone()))
TranscribeAccepted ==
    /\ AudioStep("transcribe", "transcribe")
    /\ frags_taken < env.frags
    /\ frags_taken' = frags_taken + 1
    /\ \E text \in FragmentTexts(chunks_taken), p \in NoSpeechProbabilities :
           /\ p < NoSpeechThreshold
           /\ current_segment_text' = current_segment_text \o text
           /\ Send(LiveJapaneseUpdate(current_segment_text'))
           /\ accepted' = Append(accepted, text)
           /\ UNCHANGED paused_at_final
           /\ driver_log' =
                  Append(driver_log, LiveJapaneseUpdate(current_segment_text'))
    /\ UNCHANGED << chunks_taken, vad_seen, tasks, requests_since_pause >>

\* the test given an else branch that starts the text over and shows it
TranscribeRejected_ClearsText ==
    /\ AudioStep("transcribe", "transcribe")
    /\ frags_taken < env.frags
    /\ frags_taken' = frags_taken + 1
    /\ \E p \in NoSpeechProbabilities : ~(p < NoSpeechThreshold)
    /\ current_segment_text' = << >>
    /\ Send(LiveJapaneseUpdate(<< >>))
    /\ driver_log' = Append(driver_log, LiveJapaneseUpdate(<< >>))
    /\ UNCHANGED << accepted, paused_at_final >>
    /\ UNCHANGED << chunks_taken, vad_seen, tasks, requests_since_pause >>

\* a partial result that fails the test: skipped
TranscribeRejected ==
    /\ AudioStep("transcribe", "transcribe")
    /\ frags_taken < env.frags
    /\ frags_taken' = frags_taken + 1
    /\ \E p \in NoSpeechProbabilities : ~(p < NoSpeechThreshold)
    /\ UNCHANGED << rx, handed, chunks_taken, vad_seen, current_segment_text,
                    tasks, requests_since_pause >>

    /\ UNCHANGED driverHistory
\* the test made on the text as it is, not trimmed: a segment of whitespace
\* is finalized as a unit
SegmentComplete_Untrimmed ==
    /\ AudioStep("transcribe", "status_translating")
    /\ Len(current_segment_text) > 0
    /\ Send(JapaneseSegmentComplete(current_segment_text, chunks_taken))
    /\ driver_log' =
           Append(driver_log,
                  JapaneseSegmentComplete(current_segment_text, chunks_taken))
    /\ UNCHANGED accepted
    /\ paused_at_final' = ~is_listening_shared
    /\ UNCHANGED << chunks_taken, vad_seen, current_segment_text, frags_taken,
                    tasks, requests_since_pause >>

\* the flag tested again after the stream: a chunk that ends while App's flag
\* is false is given up with `continue`, nothing sent
SegmentComplete_SkippedWhenPaused ==
    /\ Len(Trim(current_segment_text)) > 0
    /\ IF is_listening_shared
       THEN /\ AudioStep("transcribe", "status_translating")
            /\ Send(JapaneseSegmentComplete(current_segment_text, chunks_taken))
            /\ driver_log' =
                   Append(driver_log,
                          JapaneseSegmentComplete(current_segment_text,
                                                  chunks_taken))
            /\ UNCHANGED << accepted, paused_at_final >>
       ELSE /\ AudioStep("transcribe", "loop")
            /\ UNCHANGED << rx, handed >>
            /\ UNCHANGED driverHistory
    /\ UNCHANGED << chunks_taken, vad_seen, current_segment_text, frags_taken,
                    tasks, requests_since_pause >>

\* the unit sent with try_send: lost when the channel is full
SegmentComplete_TrySend ==
    /\ AudioStep("transcribe", "status_translating")
    /\ Len(Trim(current_segment_text)) > 0
    /\ TrySend(JapaneseSegmentComplete(current_segment_text, chunks_taken))
    /\ driver_log' =
           Append(driver_log,
                  JapaneseSegmentComplete(current_segment_text, chunks_taken))
    /\ UNCHANGED accepted
    /\ paused_at_final' = ~is_listening_shared
    /\ UNCHANGED << chunks_taken, vad_seen, current_segment_text, frags_taken,
                    tasks, requests_since_pause >>

\* the stream ended and current_segment_text.trim().chars().count() > 0:
\* tx.send(JapaneseSegmentComplete(current_segment_text.clone()))
SegmentComplete ==
    /\ AudioStep("transcribe", "status_translating")
    /\ Len(Trim(current_segment_text)) > 0
    /\ Send(JapaneseSegmentComplete(current_segment_text, chunks_taken))
    /\ driver_log' =
           Append(driver_log,
                  JapaneseSegmentComplete(current_segment_text, chunks_taken))
    /\ UNCHANGED accepted
    /\ paused_at_final' = ~is_listening_shared
    /\ UNCHANGED << chunks_taken, vad_seen, current_segment_text, frags_taken,
                    tasks, requests_since_pause >>

\* the spawn made to wait until no earlier task is running
StatusTranslatingAndSpawn_OneAtATime ==
    /\ tasks = { }
    /\ AudioStep("status_translating", "status_listening")
    /\ Send(StatusUpdate(<< "Translating to English..." >>))
    /\ tasks' = tasks \cup { chunks_taken }
    /\ UNCHANGED << chunks_taken, vad_seen, current_segment_text, frags_taken,
                    requests_since_pause >>
    /\ UNCHANGED driverHistory

\* tx.send(StatusUpdate("Translating to English...")); tokio::spawn(..)
StatusTranslatingAndSpawn ==
    /\ AudioStep("status_translating", "status_listening")
    /\ Send(StatusUpdate(<< "Translating to English..." >>))
    /\ tasks' = tasks \cup { chunks_taken }
    /\ UNCHANGED << chunks_taken, vad_seen, current_segment_text, frags_taken,
                    requests_since_pause >>

    /\ UNCHANGED driverHistory
\* the if without its else branch: an empty segment sends nothing
SegmentEmpty_Silent ==
    /\ AudioStep("transcribe", "status_listening")
    /\ ~(Len(Trim(current_segment_text)) > 0)
    /\ UNCHANGED << rx, handed >>
    /\ UNCHANGED driverHistory
    /\ UNCHANGED << chunks_taken, vad_seen, current_segment_text, frags_taken,
                    tasks, requests_since_pause >>

\* the stream ended with nothing but whitespace:
\* tx.send(LiveJapaneseUpdate("".to_string()))
SegmentEmpty ==
    /\ AudioStep("transcribe", "status_listening")
    /\ ~(Len(Trim(current_segment_text)) > 0)
    /\ Send(LiveJapaneseUpdate(<< >>))
    /\ driver_log' = Append(driver_log, LiveJapaneseUpdate(<< >>))
    /\ UNCHANGED accepted
    /\ paused_at_final' = ~is_listening_shared
    /\ UNCHANGED << chunks_taken, vad_seen, current_segment_text, frags_taken,
                    tasks, requests_since_pause >>

StatusListening ==
    /\ AudioStep("status_listening", "loop")
    /\ Send(StatusUpdate(<< "Listening..." >>))
    /\ UNCHANGED << chunks_taken, vad_seen, current_segment_text, frags_taken,
                    tasks, requests_since_pause >>

    /\ UNCHANGED driverHistory
\* ------------------------------------------- the spawned translation task
\* what response_stream.all_text() can give for the segment of chunk k
RawTranslations(k) ==
    { << ImStart, En(k), ImEnd, Space >>,
      << "Translating..." >>,
      << Space, ImEnd >> }

\* raw.replace("<|im_start|>", "").replace("<|im_end|>", "").trim()
IsText(t) == t \notin { ImStart, ImEnd }
CleanTranslation(raw) == Trim(SelectSeq(raw, IsText))

\* the task without its else branch: the cleaned text is sent as it is
TranslationToSend_NoSentinel(raw) == CleanTranslation(raw)

\* the text of the EnglishTranslation the task sends
TranslationToSend(raw) ==
    IF CleanTranslation(raw) # << >>
    THEN CleanTranslation(raw)
    ELSE NoTranslationGenerated

\* the task of unit k from all_text().await to its send
TranslationTask ==
    \E k \in tasks : \E raw \in RawTranslations(k) :
        /\ Send(EnglishTranslation(TranslationToSend(raw), k))
        /\ tasks' = tasks \ { k }
        /\ UNCHANGED appVars
        /\ UNCHANGED << is_listening_audio_task, audio_pc, chunks_taken,
                        vad_seen, current_segment_text, frags_taken >>
        /\ UNCHANGED << env, keys_pressed, requests_since_pause, script_pos,
                        processed, panicked, driver_log, accepted,
                        paused_at_final, submit_pressed >>

\* llama_chat(&prompt) or all_text().await panics: the task spawned by
\* tokio::spawn unwinds, its JoinHandle was dropped, nothing is sent
TranslationTaskPanics ==
    \E k \in tasks :
        /\ Running
        /\ tasks' = tasks \ { k }
        /\ panicked' = panicked \cup { k }
        /\ UNCHANGED appVars
        /\ UNCHANGED << rx, is_listening_audio_task, audio_pc, chunks_taken,
                        vad_seen, current_segment_text, frags_taken >>
        /\ UNCHANGED << env, keys_pressed, requests_since_pause, script_pos,
                        processed, handed, driver_log, accepted,
                        paused_at_final, submit_pressed >>

\* ------------------------------------------------------ the specification
\* App::new, main before the tasks run
Init ==
    /\ status = << "Initializing... Press 's' to Stop/Start, 'q' to Quit" >>
    /\ current_live_japanese = << >>
    /\ completed_japanese = << >>
    /\ completed_translations = << >>
    /\ should_quit = FALSE
    /\ input_mode = Listening
    /\ user_input = << >>
    /\ is_listening_shared = TRUE
    /\ total_samples_listened = 0
    /\ raw_samples_count = 0
    /\ app_pc = "events"
    /\ rx = << >>
    /\ is_listening_audio_task = TRUE
    /\ audio_pc = "init"
    /\ chunks_taken = 0
    /\ vad_seen = 0
    /\ current_segment_text = << >>
    /\ frags_taken = 0
    /\ tasks = { }
    /\ env \in Scenarios
    /\ keys_pressed = 0
    /\ requests_since_pause = 0
    /\ script_pos = 0
    /\ processed = << >>
    /\ panicked = { }
    /\ handed = [ t \in CriticalTypes |-> 0 ]
    /\ driver_log = << >>
    /\ accepted = << >>
    /\ paused_at_final = FALSE
    /\ submit_pressed = FALSE

Next ==
    \/ OnUpdateStatus
    \/ OnUpdateLive
    \/ OnUpdateSegmentComplete
    \/ OnUpdateTranslation
    \/ OnUpdateSamplesProcessed
    \/ OnUpdateRawSamples
    \/ OnUpdateError
    \/ HandleUpdatesDone
    \/ KeyS
    \/ KeyQ
    \/ KeyEsc
    \/ KeyEnter
    \/ KeyChar
    \/ KeyBackspace
    \/ PollTimeout
    \/ StatusInitializing
    \/ WhisperBuild
    \/ StatusWhisperLoaded
    \/ LlamaBuild
    \/ StatusAllLoaded
    \/ SendError
    \/ LoopHead
    \/ InspectVad
    \/ NextChunk
    \/ NextNone
    \/ NextTimeout
    \/ StatusProcessingChunk
    \/ SendSamplesProcessed
    \/ TranscribeAccepted
    \/ TranscribeRejected
    \/ SegmentComplete
    \/ StatusTranslatingAndSpawn
    \/ SegmentEmpty
    \/ StatusListening
    \/ TranslationTask
    \/ TranslationTaskPanics

Spec == Init /\ [][Next]_vars

\* ---------------------------------------------------------- the fairness
\* App::run keeps looping, the audio task and every spawned task keep being
\* scheduled, and a sender waiting for capacity gets it in turn
HandleEvents ==
    KeyS \/ KeyQ \/ KeyEsc \/ KeyEnter \/ KeyChar \/ KeyBackspace \/ PollTimeout

HandleUpdates ==
    \/ OnUpdateStatus
    \/ OnUpdateLive
    \/ OnUpdateSegmentComplete
    \/ OnUpdateTranslation
    \/ OnUpdateSamplesProcessed
    \/ OnUpdateRawSamples
    \/ OnUpdateError
    \/ HandleUpdatesDone

AudioTask ==
    \/ StatusInitializing
    \/ WhisperBuild
    \/ StatusWhisperLoaded
    \/ LlamaBuild
    \/ StatusAllLoaded
    \/ SendError
    \/ LoopHead
    \/ NextChunk
    \/ NextNone
    \/ NextTimeout
    \/ StatusProcessingChunk
    \/ SendSamplesProcessed
    \/ TranscribeAccepted
    \/ TranscribeRejected
    \/ SegmentComplete
    \/ StatusTranslatingAndSpawn
    \/ SegmentEmpty
    \/ StatusListening

FairSpec ==
    /\ Spec
    /\ WF_vars(HandleEvents)
    /\ WF_vars(HandleUpdates)
    /\ SF_vars(AudioTask)
    /\ SF_vars(TranslationTask)

\* ------------------------------------------------------------ the claims
Ready(v) == v \notin { Translating, TranslatingUserInput, PendingTranslation }

PendingSlots(tr) == { i \in 1..Len(tr) : tr[i] = Translating }
ReadySlots(tr) == { i \in 1..Len(tr) : Ready(tr[i]) }

\* this step is on_update processing an EnglishTranslation
TranslationStep == processed' # processed
\* the unit whose task sent it, and its text
StepUnit == Head(rx).unit
StepText == Head(rx).text

IsUserInputUnit(text) == text # << >> /\ text[1] = UserInputPrefix[1]

\* C1: in every reachable state the annotation list is no longer than the
\* unit list and every unit has an annotation entry at its own index.
C1_HistoryAligned ==
    /\ Len(completed_translations) <= Len(completed_japanese)
    /\ \A i \in 1..Len(completed_japanese) :
           i \in DOMAIN completed_translations

\* a unit-finalized, an annotation-ready and a typed submit have all happened
C1_Witness ==
    /\ processed # << >>
    /\ \E i \in 1..Len(completed_japanese) :
           IsUserInputUnit(completed_japanese[i])
    /\ \E i \in 1..Len(completed_japanese) :
           ~IsUserInputUnit(completed_japanese[i])

\* C2: when the result of a unit is processed after a later unit has been
\* finalized whose slot is Pending and whose own result has not been
\* processed, the result is stored in the slot of the unit it belongs to and
\* the later unit's slot stays Pending.
C2_Claim ==
    [][ TranslationStep =>
          \A v \in 1..chunks_taken :
              ( /\ v > StepUnit
                /\ UnitIndex(completed_japanese, v) # 0
                /\ completed_translations[UnitIndex(completed_japanese, v)]
                       = Translating
                /\ \A n \in 1..Len(processed) : processed[n].unit # v )
              => /\ completed_translations'[UnitIndex(completed_japanese, StepUnit)]
                        = StepText
                 /\ completed_translations'[UnitIndex(completed_japanese, v)]
                        = Translating
      ]_vars

\* C3: for units A (finalized first) and B (finalized second), if B's result
\* was processed before A's then, once both are processed, A's slot holds A's
\* result and B's slot holds B's result.  Stated for results that are proper
\* texts (not equal to a placeholder), the case the claim is about.
C3_Claim ==
    \A m, n \in 1..Len(processed) :
        ( /\ m < n
          /\ processed[m].unit > processed[n].unit
          /\ Ready(processed[m].text)
          /\ Ready(processed[n].text) )
        => /\ completed_translations[UnitIndex(completed_japanese,
                                               processed[m].unit)]
                  = processed[m].text
           /\ completed_translations[UnitIndex(completed_japanese,
                                               processed[n].unit)]
                  = processed[n].text

\* C4: once the control plane has set its listening flag to false, the
\* capture loop makes at most the one chunk request it may already have under
\* way, and none after it, until the flag is set to true again.
C4_Claim == ~is_listening_shared => requests_since_pause <= 1

\* C5: from Listening, the key sequence toggle, t, e, s, t, submit keeps the
\* listening flag false from the toggle through the submit, and the submit
\* appends exactly one unit with text "test" and one Pending annotation.
C5_Claim ==
    [][ /\ script_pos' \in 1..Len(Script) => ~is_listening_shared'
        /\ (script_pos = Len(Script) - 1 /\ script_pos' = Len(Script))
           => /\ completed_japanese'
                     = Append(completed_japanese, << "t", "e", "s", "t" >>)
              /\ completed_translations'
                     = Append(completed_translations, TranslatingUserInput)
      ]_vars

\* C6: an EnglishTranslation processed while some slot holds "Translating..."
\* is written into exactly one such slot and the number of Ready slots grows
\* by exactly one.
C6_Claim ==
    [][ (TranslationStep /\ PendingSlots(completed_translations) # { })
        => /\ \E i \in PendingSlots(completed_translations) :
                  completed_translations'
                      = [completed_translations EXCEPT ![i] = StepText]
           /\ Cardinality(ReadySlots(completed_translations'))
                  = Cardinality(ReadySlots(completed_translations)) + 1
      ]_vars

\* the slot of the unit whose task sent the EnglishTranslation being processed
OwnSlot ==
    IF UnitIndex(completed_japanese, StepUnit) \in 1..Len(completed_translations)
    THEN completed_translations[UnitIndex(completed_japanese, StepUnit)]
    ELSE << >>

\* C7: processing an EnglishTranslation whose own slot is already Ready
\* changes neither the length of the unit list nor that of the annotation list.
C7_LengthsKept ==
    [][ (TranslationStep /\ OwnSlot # << >> /\ Ready(OwnSlot))
        => /\ Len(completed_japanese') = Len(completed_japanese)
           /\ Len(completed_translations') = Len(completed_translations)
      ]_vars

\* an EnglishTranslation has been processed whose own slot was already Ready
C7_Witness ==
    \E n \in 1..Len(processed) :
        processed[n].own_slot # << >> /\ Ready(processed[n].own_slot)

\* the slot of the oldest-finalized unit still waiting: units are inserted at
\* the front, so it is the Pending slot of the highest index
OldestPending(tr) ==
    CHOOSE i \in PendingSlots(tr) : \A j \in PendingSlots(tr) : j <= i

\* C8: when an EnglishTranslation is processed and the newest slot is not
\* Pending, the result fills the Pending slot of the oldest-finalized unit
\* still waiting; an entry is added only when no slot is Pending and the
\* annotation list is shorter than the unit list.
C8_Claim ==
    [][ TranslationStep =>
          /\ ( /\ completed_translations # << >>
               /\ completed_translations[1] # Translating
               /\ PendingSlots(completed_translations) # { } )
             => completed_translations'
                    = [completed_translations EXCEPT
                          ![OldestPending(completed_translations)] = StepText]
          /\ Len(completed_translations') > Len(completed_translations)
             => /\ PendingSlots(completed_translations) = { }
                /\ Len(completed_translations) < Len(completed_japanese)
      ]_vars

C10_Claim ==
    <>[]( \/ should_quit
          \/ panicked # { }
          \/ PendingSlots(completed_translations) = { } )

\* C11: a translation task that fails still sends one EnglishTranslation for
\* its unit, carrying a sentinel text.
C11_Claim ==
    [][ \A k \in panicked' \ panicked :
          /\ Len(rx') = Len(rx) + 1
          /\ rx'[Len(rx')].type = "EnglishTranslation"
          /\ rx'[Len(rx')].unit = k
          /\ rx'[Len(rx')].text = NoTranslationGenerated
      ]_vars

\* the types of event that report the state of the pipeline to App
ReportTypes == { "StatusUpdate", "Error" }

\* C12: the step by which the capture loop leaves on end of stream gives the
\* channel an event that reports it, which on_update turns into the status.
C12_Claim ==
    [][ (audio_pc = "next" /\ audio_pc' = "done")
        => /\ Len(rx') = Len(rx) + 1
           /\ rx'[Len(rx')].type \in ReportTypes
      ]_vars

\* nothing of the capture loop has happened: no chunk or VAD output was taken
\* from the stream and no live-update, unit or translation was sent
LoopNeverEntered ==
    /\ audio_pc \in { "failed", "done" }
    /\ chunks_taken = 0
    /\ vad_seen = 0
    /\ driver_log = << >>
    /\ handed["JapaneseSegmentComplete"] = 0
    /\ handed["EnglishTranslation"] = 0

\* C13: when WhisperBuilder's or Llama's build fails, one Error event and no
\* more is sent, the capture loop is never entered, and on_update turns the
\* Error into a status starting with "ERROR: ".
C13_InitFailure ==
    [][ /\ handed'["Error"] <= 1
        /\ (audio_pc' = "failed" \/ handed'["Error"] = 1) => LoopNeverEntered'
        /\ (audio_pc = "failed" /\ audio_pc' # "failed")
           => /\ handed'["Error"] = 1
              /\ rx' # << >>
              /\ rx'[Len(rx')].type = "Error"
        /\ (rx # << >> /\ Head(rx).type = "Error" /\ rx' = Tail(rx))
           => status' = << "ERROR: " >> \o Head(rx).text
      ]_vars

\* a build failed, the Error was sent and App has shown it
C13_Witness ==
    /\ handed["Error"] = 1
    /\ audio_pc = "done"
    /\ status # << >>
    /\ status[1] = "ERROR: "

\* the positions of audio_processing_task at which the next thing it does is
\* give the channel a StatusUpdate or a SamplesProcessed
ObservabilitySends ==
    { "init", "status_whisper", "status_loaded", "status_chunk", "samples",
      "status_translating", "status_listening" }

\* C14: a producer about to send a status or a samples counter can always
\* take its step, whether the channel has room or not: on a full channel the
\* event is dropped and the producer goes on.
C14_Claim ==
    (Running /\ audio_pc \in ObservabilitySends) => ENABLED AudioTask

\* the events of type t waiting in the channel, in order
InChannel(t) == SelectSeq(rx, LAMBDA m : m.type = t)

\* the units of completed_japanese that came from chunks, newest first
IsChunkUnit(text) == ~IsUserInputUnit(text)
ChunkUnits == SelectSeq(completed_japanese, IsChunkUnit)

\* every unit and every translation given to the channel is in the channel or
\* has been received
NoCriticalLost ==
    /\ handed["JapaneseSegmentComplete"]
           = Len(InChannel("JapaneseSegmentComplete")) + Len(ChunkUnits)
    /\ handed["EnglishTranslation"]
           = Len(InChannel("EnglishTranslation")) + Len(processed)

\* the channel is a queue: a step adds one event at its end or takes the one
\* at its head
FifoStep ==
    rx' # rx
    => \/ rx # << >> /\ rx' = Tail(rx)
       \/ /\ Len(rx') = Len(rx) + 1
          /\ SubSeq(rx', 1, Len(rx)) = rx

\* a unit is received after every unit of an earlier chunk and before every
\* unit of a later one
UnitReceivedInOrder ==
    (rx # << >> /\ rx' = Tail(rx) /\ Head(rx).type = "JapaneseSegmentComplete")
    => /\ \A k \in 1..chunks_taken :
              UnitIndex(completed_japanese, k) # 0 => k < Head(rx).unit
       /\ completed_japanese'[1] = Head(rx).text

\* C15: no JapaneseSegmentComplete and no EnglishTranslation is lost to a full
\* channel; handle_updates returns only when it has emptied the channel, so
\* what was sent is received; and one producer's events arrive in the order
\* it sent them.
C15_NothingLost ==
    [][ /\ NoCriticalLost'
        /\ FifoStep
        /\ UnitReceivedInOrder
        /\ (app_pc = "updates" /\ app_pc' # "updates") => rx = << >>
      ]_vars

\* a translation task is waiting for room in a full channel that holds a unit,
\* and an earlier unit and translation have been received
C15_Witness ==
    /\ Len(rx) = ChanCap
    /\ tasks # { }
    /\ InChannel("JapaneseSegmentComplete") # << >>
    /\ processed # << >>
    /\ ChunkUnits # << >>

\* the positions of audio_processing_task between the delivery of a chunk and
\* the end of its transcription
InChunk == { "status_chunk", "samples", "transcribe" }

\* the last event of the log is the chunk's unit or its empty clear
FinalSent(log) ==
    /\ log # << >>
    /\ \/ log[Len(log)].type = "JapaneseSegmentComplete"
       \/ log[Len(log)] = LiveJapaneseUpdate(<< >>)

\* C16: while a chunk is in the driver and App's listening flag is false, the
\* audio task is held up by nothing but a full channel, each of its steps is
\* the next step of the chunk, and the step that ends the transcription sends
\* the chunk's JapaneseSegmentComplete or its empty LiveJapaneseUpdate.
C16_ChunkNotAborted ==
    [][ (~is_listening_shared /\ Running /\ audio_pc \in InChunk)
        => /\ Len(rx) < ChanCap => ENABLED AudioTask
           /\ audio_pc' # audio_pc
              => \/ audio_pc = "status_chunk" /\ audio_pc' = "samples"
                 \/ audio_pc = "samples" /\ audio_pc' = "transcribe"
                 \/ /\ audio_pc = "transcribe"
                    /\ audio_pc' \in { "status_translating", "status_listening" }
                    /\ FinalSent(driver_log')
      ]_vars

\* a chunk's last event was sent while App's flag was false
C16_Witness ==
    /\ paused_at_final
    /\ FinalSent(driver_log)
    /\ audio_pc \in { "status_translating", "status_listening" }

\* the units and the empty clears in a log
IsFinal(m) ==
    m.type = "JapaneseSegmentComplete" \/ m = LiveJapaneseUpdate(<< >>)
Finals(log) == SelectSeq(log, IsFinal)

\* the transcription of the chunk last taken is over and the log is still its
ChunkOver ==
    /\ chunks_taken > 0
    /\ audio_pc \in { "status_translating", "status_listening", "loop",
                      "next", "done" }

\* C17: while a chunk is being transcribed neither its unit nor its clear has
\* been sent; once its transcription is over exactly one of the two has been
\* sent, as the chunk's last event.
C17_OneFinalPerChunk ==
    /\ audio_pc = "transcribe" => Finals(driver_log) = << >>
    /\ ChunkOver => Len(Finals(driver_log)) = 1 /\ FinalSent(driver_log)

\* a chunk ended with a unit and a later one with a clear
C17_Witness ==
    /\ ChunkOver
    /\ chunks_taken >= 2
    /\ completed_japanese # << >>
    /\ driver_log[Len(driver_log)] = LiveJapaneseUpdate(<< >>)

\* the chunk last taken is over and its text was empty once trimmed
EmptyChunkOver == ChunkOver /\ Trim(current_segment_text) = << >>

\* C18: the step that ends the transcription of a chunk whose text is empty
\* once trimmed sends an empty LiveJapaneseUpdate and nothing else, gives the
\* channel no unit and spawns no task, so neither list of History grows; no
\* task ever exists for that chunk; and when on_update has received the
\* chunk's live-updates current_live_japanese is empty.
C18_EmptyChunkDiscarded ==
    [][ /\ ( /\ audio_pc = "transcribe"
             /\ audio_pc' # "transcribe"
             /\ Trim(current_segment_text) = << >> )
           => /\ rx' = Append(rx, LiveJapaneseUpdate(<< >>))
              /\ handed' = handed
              /\ tasks' = tasks
              /\ Len(completed_japanese') = Len(completed_japanese)
              /\ Len(completed_translations') = Len(completed_translations)
        /\ EmptyChunkOver'
           => /\ chunks_taken' \notin (tasks' \cup panicked')
              /\ \A n \in 1..Len(driver_log') :
                     driver_log'[n].type # "JapaneseSegmentComplete"
              /\ \A n \in 1..Len(rx') : rx'[n].unit # chunks_taken'
              /\ \A n \in 1..Len(processed') :
                     processed'[n].unit # chunks_taken'
              /\ InChannel("LiveJapaneseUpdate")' = << >>
                 => current_live_japanese' = << >>
      ]_vars

\* a chunk of accepted whitespace is over and on_update has received its
\* live-update and its clear, with an earlier unit in History
C18_Witness ==
    /\ EmptyChunkOver
    /\ accepted # << >>
    /\ InChannel("LiveJapaneseUpdate") = << >>
    /\ current_live_japanese = << >>
    /\ completed_japanese # << >>

\* the live-updates of a log, in the order sent
IsLive(m) == m.type = "LiveJapaneseUpdate"
Lives(log) == SelectSeq(log, IsLive)

\* the texts of a sequence of events never get shorter
NonDecreasing(events) ==
    \A i, j \in 1..Len(events) :
        i < j => Len(events[i].text) <= Len(events[j].text)

\* the events sent for the chunk while its partial results were read: the
\* log without the unit or clear that ends it
BeforeFinal(log) ==
    IF audio_pc = "transcribe" \/ log = << >>
    THEN log
    ELSE SubSeq(log, 1, Len(log) - 1)

\* C19: the live-updates sent for a chunk, the clear of an empty chunk
\* included, carry texts of non-decreasing length.
C19_Claim == NonDecreasing(Lives(driver_log))

\* C19 as amended: the live-updates sent for the partial results of a chunk
\* carry texts of non-decreasing length.
C19_PartialUpdatesGrow == NonDecreasing(Lives(BeforeFinal(driver_log)))

\* two partial results were accepted, their live-updates grew, and the chunk
\* ended with the clear
C19_Witness ==
    /\ ChunkOver
    /\ Len(accepted) >= 2
    /\ Len(Lives(driver_log)) >= 3
    /\ Len(driver_log[1].text) < Len(driver_log[2].text)
    /\ driver_log[Len(driver_log)] = LiveJapaneseUpdate(<< >>)

\* the concatenation of the first k texts of a sequence of texts
RECURSIVE ConcatFirst(_, _)
ConcatFirst(texts, k) ==
    IF k = 0 THEN << >> ELSE ConcatFirst(texts, k - 1) \o texts[k]

\* C20: for the chunk in the driver there is one live-update per accepted
\* partial result and none for a rejected one, the k-th live-update carries
\* the first k accepted texts concatenated, and the text of the chunk's
\* JapaneseSegmentComplete is all accepted texts concatenated.
C20_CumulativeText ==
    /\ Len(accepted) <= frags_taken
    /\ Len(Lives(BeforeFinal(driver_log))) = Len(accepted)
    /\ \A k \in 1..Len(accepted) :
           /\ IsLive(driver_log[k])
           /\ driver_log[k].text = ConcatFirst(accepted, k)
    /\ \A n \in 1..Len(driver_log) :
           driver_log[n].type = "JapaneseSegmentComplete"
           => driver_log[n].text = ConcatFirst(accepted, Len(accepted))

\* two partial results were accepted and the unit was sent
C20_Witness ==
    /\ Len(accepted) >= 2
    /\ accepted[1] # accepted[2]
    /\ driver_log[Len(driver_log)].type = "JapaneseSegmentComplete"

\* C21: no EnglishTranslation, sent or received, carries the empty text, and
\* no slot of completed_translations holds it; a task whose cleaned result is
\* empty sends "[No translation generated]".
C21_NoEmptyTranslation ==
    /\ \A n \in 1..Len(rx) :
           rx[n].type = "EnglishTranslation" => rx[n].text # << >>
    /\ \A n \in 1..Len(processed) : processed[n].text # << >>
    /\ \A i \in 1..Len(completed_translations) :
           completed_translations[i] # << >>

\* a task's cleaned result was empty and its unit's slot holds the sentinel
C21_Witness ==
    \E i \in 1..Len(completed_translations) :
        completed_translations[i] = NoTranslationGenerated

\* C22: App starts in Listening with its flag true; the flag App writes is
\* true exactly when the mode is Listening; the mode changes only by a toggle,
\* from one mode to the other; and right after a toggle from Listening to
\* StoppedTyping current_live_japanese is empty.
C22_FlagFollowsMode ==
    /\ input_mode = Listening
    /\ is_listening_shared = TRUE
    /\ [][ /\ is_listening_shared' <=> (input_mode' = Listening)
           /\ input_mode' \in { Listening, StoppedTyping }
           /\ input_mode' # input_mode => keys_pressed' = keys_pressed + 1
           /\ (input_mode = Listening /\ input_mode' = StoppedTyping)
              => current_live_japanese' = << >>
         ]_vars

\* App was toggled to StoppedTyping and back to Listening
C22_Witness ==
    /\ status = << "Starting... Press 's' to Stop/Start, 'q' to Quit" >>
    /\ input_mode = Listening
    /\ is_listening_shared
    /\ keys_pressed >= 2

\* this step is handle_events handling Enter
SubmitStep == keys_pressed' = keys_pressed + 1 /\ submit_pressed'

\* C23: Enter in StoppedTyping with a non-empty user_input appends one unit,
\* the input after the label "[User Input]: ", and one placeholder
\* "Translating user input..." at the unit's index, empties user_input and
\* leaves current_live_japanese and the mode alone; with an empty user_input
\* it leaves both lists alone.
C23_Submit ==
    [][ (SubmitStep /\ input_mode = StoppedTyping)
        => /\ user_input # << >>
              => /\ completed_japanese'
                        = Append(completed_japanese,
                                 << "[User Input]: " >> \o user_input)
                 /\ completed_translations'
                        = Append(completed_translations,
                                 << "Translating user input..." >>)
                 /\ Len(completed_translations') = Len(completed_japanese')
                 /\ user_input' = << >>
           /\ user_input = << >>
              => /\ completed_japanese' = completed_japanese
                 /\ completed_translations' = completed_translations
           /\ current_live_japanese' = current_live_japanese
           /\ input_mode' = input_mode
      ]_vars

\* typed input was submitted after a unit came from a chunk
C23_Witness ==
    /\ submit_pressed
    /\ ChunkUnits # << >>
    /\ Len(completed_japanese) >= 2
    /\ IsUserInputUnit(completed_japanese[Len(completed_japanese)])
    /\ completed_translations[Len(completed_japanese)] = TranslatingUserInput
    /\ user_input = << >>


\* C24: while translation tasks are running, the audio task can take its next
\* step whenever the channel has room: it goes on to the next chunk without
\* waiting for a task, and a new task is spawned however many are running.
C24_DispatchDoesNotBlock ==
    (Running /\ tasks # { } /\ audio_pc # "done" /\ Len(rx) < ChanCap)
    => ENABLED AudioTask

\* the tasks of all units are running while the last chunk's own task was
\* just spawned: the earlier chunks were transcribed with tasks in flight
C24_Witness ==
    /\ env.chunks = MaxChunks
    /\ tasks = 1..MaxChunks
    /\ panicked = { }
    /\ processed = << >>


\* C25: every step that adds a unit to completed_japanese puts it at index 0,
\* in front of the units already there, so the list is newest first whether
\* the unit came from a chunk or from typed input.
C25_NewestFirst ==
    [][ Len(completed_japanese') > Len(completed_japanese)
        => completed_japanese'
               = << completed_japanese'[1] >> \o completed_japanese
      ]_vars


\* the trim and the backfill would leave tr as it is
NoRepair(tr, jp_len) ==
    /\ TrimTranslations(tr, jp_len) = tr
    /\ BackfillTranslations(tr, jp_len) = tr

\* C26: between handlers completed_japanese and completed_translations have
\* the same length and no slot holds "[Pending Translation]"; for the event
\* on_update takes next, the trim loop has nothing to pop and the backfill
\* loop nothing to insert.
C26_RepairNeverRuns ==
    /\ Len(completed_translations) = Len(completed_japanese)
    /\ \A i \in 1..Len(completed_translations) :
           completed_translations[i] # PendingTranslation
    /\ (rx # << >> /\ Head(rx).type = "JapaneseSegmentComplete")
       => NoRepair(PlaceholderForSegment(completed_translations),
                   Len(completed_japanese) + 1)
    /\ (rx # << >> /\ Head(rx).type = "EnglishTranslation")
       => NoRepair(ResolveTranslation(completed_translations,
                                      Len(completed_japanese), Head(rx).text),
                   Len(completed_japanese))

\* an EnglishTranslation is the next event while History holds a typed unit
\* and a unit from a chunk
C26_Witness ==
    /\ rx # << >>
    /\ Head(rx).type = "EnglishTranslation"
    /\ ChunkUnits # << >>
    /\ Len(ChunkUnits) < Len(completed_japanese)
    /\ Len(completed_translations) = Len(completed_japanese)


\* C27: the slot at the index of a typed unit holds "Translating user
\* input...", and no other slot does: no EnglishTranslation is written into
\* it and it moves with its unit.
C27_TypedSlotsKept ==
    /\ Len(completed_translations) = Len(completed_japanese)
    /\ \A i \in 1..Len(completed_japanese) :
           IsUserInputUnit(completed_japanese[i])
           <=> completed_translations[i] = TranslatingUserInput

\* a typed unit sits behind a unit from a chunk whose translation has been
\* written
C27_Witness ==
    /\ Len(completed_japanese) >= 2
    /\ IsChunkUnit(completed_japanese[1])
    /\ Ready(completed_translations[1])
    /\ IsUserInputUnit(completed_japanese[2])
    /\ completed_translations[2] = TranslatingUserInput
    /\ processed # << >>

====
